---------------------------- MODULE Spec2Model ----------------------------
(***************************************************************************)
(* Model of streamteam/potential/cbuiltin.pyx: the Hernquist,              *)
(* Miyamoto-Nagai and Lee-Suto NFW potential kernels and the Python        *)
(* classes that construct them.                                            *)
(*                                                                         *)
(* A C double is modelled as an extended rational <<n, d>>: d > 0 is the   *)
(* finite value n/d in lowest terms, <<1,0>> is +inf, <<-1,0>> is -inf and *)
(* <<0,0>> is NaN.  Arithmetic is exact on finite values (rounding is not  *)
(* modelled) and follows IEEE-754 on the non-finite ones.                  *)
(***************************************************************************)
EXTENDS Integers, Sequences, FiniteSets, TLC

(***************************************************************************)
(* Extended rational arithmetic (the C double operations the kernels use)  *)
(***************************************************************************)
Abs(n) == IF n < 0 THEN -n ELSE n

Sgn(n) == IF n < 0 THEN -1 ELSE IF n > 0 THEN 1 ELSE 0

RECURSIVE GCD(_, _)
GCD(a, b) == IF b = 0 THEN a ELSE GCD(b, a % b)

\* the double n/d, with n/0 giving +-inf and 0/0 giving NaN
Q(n, d) ==
    IF d = 0 THEN <<Sgn(n), 0>>
    ELSE LET g == GCD(Abs(n), Abs(d))
             s == Sgn(d)
         IN  <<(s * n) \div g, (s * d) \div g>>

I(n) == <<n, 1>>

NaN == <<0, 0>>
PInf == <<1, 0>>
NInf == <<-1, 0>>

IsFinite(x) == x[2] # 0
IsNaN(x) == x = NaN

fneg(x) == <<-x[1], x[2]>>

fadd(x, y) ==
    IF x[2] = 0 /\ y[2] = 0
    THEN (IF x = y THEN x ELSE NaN)
    ELSE LET g == GCD(x[2], y[2])
         IN  IF g = 0 THEN Q(x[1] + y[1], 0)
             ELSE Q(x[1] * (y[2] \div g) + y[1] * (x[2] \div g),
                    (x[2] \div g) * y[2])

fsub(x, y) == fadd(x, fneg(y))

fmul(x, y) ==
    LET g1 == GCD(Abs(x[1]), y[2])
        g2 == GCD(Abs(y[1]), x[2])
        a1 == IF g1 = 0 THEN x[1] ELSE x[1] \div g1
        b2 == IF g1 = 0 THEN y[2] ELSE y[2] \div g1
        a2 == IF g2 = 0 THEN y[1] ELSE y[1] \div g2
        b1 == IF g2 = 0 THEN x[2] ELSE x[2] \div g2
    IN  IF x[2] = 0 \/ y[2] = 0
        THEN <<Sgn(x[1]) * Sgn(y[1]) *
               (IF (x[2] = 0 /\ x[1] = 0) \/ (y[2] = 0 /\ y[1] = 0) THEN 0 ELSE 1), 0>>
        ELSE Q(a1 * a2, b1 * b2)

\* 1/x in C with cdivision(True): 1/0 = inf, 1/inf = 0, 1/NaN = NaN
frecip(x) ==
    IF x[1] = 0 THEN (IF x[2] = 0 THEN NaN ELSE PInf)
    ELSE <<Sgn(x[1]) * x[2], Abs(x[1])>>

fdiv(x, y) == fmul(x, frecip(y))

\* floor of the square root of a natural number
ISqrt(n) == CHOOSE k \in 0..n : k * k <= n /\ (k + 1) * (k + 1) > n

\* math.h sqrt: exact when the argument is the square of a rational, rounded
\* down to a multiple of 1/d otherwise; sqrt of a negative number is NaN
sqrt(x) ==
    IF x[2] = 0 THEN (IF x = PInf THEN PInf ELSE NaN)
    ELSE IF x[1] < 0 THEN NaN
    ELSE Q(ISqrt(x[1] * x[2]), x[2])

\* math.h pow with a natural exponent
RECURSIVE pow(_, _)
pow(x, n) == IF n = 0 THEN I(1) ELSE fmul(x, pow(x, n - 1))

\* math.h pow(x, -1.5)
pow_m1_5(x) == frecip(fmul(x, sqrt(x)))

\* math.h log.  The kernels use it only as a function of its argument; the
\* finite positive case is the rational approximant 2(x-1)/(x+1) of ln x
\* (first term of the area-tangent series), exact at x = 1.
log(x) ==
    IF x[2] = 0 THEN (IF x = PInf THEN PInf ELSE NaN)
    ELSE IF x[1] < 0 THEN NaN
    ELSE IF x[1] = 0 THEN NInf
    ELSE fdiv(fmul(I(2), fsub(x, I(1))), fadd(x, I(1)))

(***************************************************************************)
(* 3-vectors and 3x3 matrices (numpy arrays of doubles)                    *)
(***************************************************************************)
Vec(x, y, z) == <<I(x), I(y), I(z)>>

dot3(a, b) == fadd(fadd(fmul(a[1], b[1]), fmul(a[2], b[2])), fmul(a[3], b[3]))

MatVec(M, v) == <<dot3(M[1], v), dot3(M[2], v), dot3(M[3], v)>>

Col(M, j) == <<M[1][j], M[2][j], M[3][j]>>

\* numpy ndarray.dot on 3x3 arrays
MatMul(A, B) == [i \in 1..3 |-> [j \in 1..3 |-> dot3(A[i], Col(B, j))]]

\* np.eye(3)
eye3 == <<Vec(1, 0, 0), Vec(0, 1, 0), Vec(0, 0, 1)>>

Det3(M) ==
    fadd(fsub(fmul(M[1][1], fsub(fmul(M[2][2], M[3][3]), fmul(M[2][3], M[3][2]))),
              fmul(M[1][2], fsub(fmul(M[2][1], M[3][3]), fmul(M[2][3], M[3][1])))),
         fmul(M[1][3], fsub(fmul(M[2][1], M[3][2]), fmul(M[2][2], M[3][1]))))

\* cofactor of entry (i, j)
Cof(M, i, j) ==
    LET r1 == IF i = 1 THEN 2 ELSE 1
        r2 == IF i = 3 THEN 2 ELSE 3
        c1 == IF j = 1 THEN 2 ELSE 1
        c2 == IF j = 3 THEN 2 ELSE 3
        m  == fsub(fmul(M[r1][c1], M[r2][c2]), fmul(M[r1][c2], M[r2][c1]))
    IN  IF (i + j) % 2 = 0 THEN m ELSE fneg(m)

\* np.linalg.inv: the exact inverse (a singular matrix raises LinAlgError,
\* see Singular)
inv(M) == [i \in 1..3 |-> [j \in 1..3 |-> fdiv(Cof(M, j, i), Det3(M))]]

Singular(M) == Det3(M) = I(0)

\* cos and sin of k quarter turns
cosq(k) == I(<<1, 0, -1, 0>>[(k % 4) + 1])
sinq(k) == I(<<0, 1, 0, -1>>[(k % 4) + 1])

\* astropy.coordinates.angles.rotation_matrix(angle, axis), the angle given
\* as a number k of quarter turns
rotation_matrix(k, axis) ==
    LET c == cosq(k)
        s == sinq(k)
    IN  IF axis = "x"
        THEN <<Vec(1, 0, 0), <<I(0), c, s>>, <<I(0), fneg(s), c>>>>
        ELSE <<<<c, s, I(0)>>, <<fneg(s), c, I(0)>>, Vec(0, 0, 1)>>

(***************************************************************************)
(* _HernquistPotential                                                     *)
(***************************************************************************)
\* __init__(self, double G, double m, double c)
Hernquist_init(G, m, c) ==
    [kind |-> "Hernquist", G |-> G, GM |-> fmul(G, m), m |-> m, c |-> c]

\* body of the loop of _value: the value written to pot[i] for r[i] = p
Hernquist_value_at(self, p) ==
    LET R == sqrt(fadd(fadd(fmul(p[1], p[1]), fmul(p[2], p[2])), fmul(p[3], p[3])))
    IN  fdiv(fneg(self.GM), fadd(R, self.c))

\* the gradient with the factor R dropped from the denominator
Hernquist_gradient_noR(self, p) ==
    LET R == sqrt(fadd(fadd(fmul(p[1], p[1]), fmul(p[2], p[2])), fmul(p[3], p[3])))
        fac == fdiv(self.GM, pow(fadd(R, self.c), 2))
    IN  <<fmul(fac, p[1]), fmul(fac, p[2]), fmul(fac, p[3])>>

\* body of the loop of _gradient: the values written to grad[i,0..2]
Hernquist_gradient_at(self, p) ==
    LET x == p[1]
        y == p[2]
        z == p[3]
        R == sqrt(fadd(fadd(fmul(x, x), fmul(y, y)), fmul(z, z)))
        fac == fdiv(self.GM, fmul(pow(fadd(R, self.c), 2), R))
    IN  <<fmul(fac, x), fmul(fac, y), fmul(fac, z)>>

(***************************************************************************)
(* _MiyamotoNagaiPotential                                                 *)
(***************************************************************************)
\* __init__(self, double G, double m, double a, double b)
MiyamotoNagai_init(G, m, a, b) ==
    [kind |-> "MiyamotoNagai", G |-> G, GM |-> fmul(G, m), m |-> m,
     a |-> a, b |-> b, b2 |-> fmul(b, b)]

MiyamotoNagai_value_at(self, p) ==
    LET x == p[1]
        y == p[2]
        z == p[3]
        zd == fadd(self.a, sqrt(fadd(fmul(z, z), self.b2)))
    IN  fdiv(fneg(self.GM),
             sqrt(fadd(fadd(fmul(x, x), fmul(y, y)), fmul(zd, zd))))

MiyamotoNagai_gradient_at(self, p) ==
    LET x == p[1]
        y == p[2]
        z == p[3]
        sqrtz == sqrt(fadd(fmul(z, z), self.b2))
        zd == fadd(self.a, sqrtz)
        fac == fmul(self.GM,
                    pow_m1_5(fadd(fadd(fmul(x, x), fmul(y, y)), fmul(zd, zd))))
    IN  <<fmul(fac, x), fmul(fac, y),
          fmul(fmul(fac, z), fadd(I(1), fdiv(self.a, sqrtz)))>>

\* sqrtz = sqrt(z*z + self.b2), the divisor of self.a in _gradient
MiyamotoNagai_sqrtz(self, p) == sqrt(fadd(fmul(p[3], p[3]), self.b2))

\* x*x + y*y + zd*zd, whose square root divides -GM in _value and whose
\* power -1.5 multiplies GM in _gradient
MiyamotoNagai_denom(self, p) ==
    LET zd == fadd(self.a, MiyamotoNagai_sqrtz(self, p))
    IN  fadd(fadd(fmul(p[1], p[1]), fmul(p[2], p[2])), fmul(zd, zd))

(***************************************************************************)
(* _LeeSutoNFWPotential.  The fields R and Rinv are memoryviews: they hold *)
(* the index in mem of the array they view.                                *)
(***************************************************************************)
\* __init__(self, v_h, r_h, a, b, c, R): R is the index of the array passed,
\* Rinv the index of the array np.linalg.inv returns
LeeSutoNFW_init(v_h, r_h, a, b, c, R, Rinv) ==
    [kind |-> "LeeSutoNFW",
     v_h |-> v_h, v_h2 |-> fmul(v_h, v_h),
     r_h |-> r_h, r_h2 |-> fmul(r_h, r_h),
     a |-> a, a2 |-> fmul(a, a),
     b |-> b, b2 |-> fmul(b, b),
     c |-> c, c2 |-> fmul(c, c),
     e_b2 |-> fsub(I(1), pow(fdiv(b, a), 2)),
     e_c2 |-> fsub(I(1), pow(fdiv(c, a), 2)),
     x0 |-> fdiv(I(1), r_h),
     R |-> R, Rinv |-> Rinv]

\* the divisions b/a, c/a and 1/r_h of __init__ are Python divisions (no
\* cdivision directive on __init__): a zero divisor raises ZeroDivisionError
LeeSutoNFW_init_raises(r_h, a) == a = I(0) \/ r_h = I(0)

\* The loop bodies of _value and _gradient are written as chains of
\* operators, one per group of assignments; l is the record of the C locals
\* assigned so far (r_ and r2_ stand for _r and _r2).

\* x, y, z = R * (_x, _y, _z), for the array R that self.R views
LeeSutoNFW_rotate(R, p) ==
    LET xyz == MatVec(R, p)
    IN  [x |-> xyz[1], y |-> xyz[2], z |-> xyz[3]]

norm2(l) == fadd(fadd(fmul(l.x, l.x), fmul(l.y, l.y)), fmul(l.z, l.z))

\* the expression assigned to pot[i]; lg is log(u + 1)
LeeSutoNFW_value_expr(self, l, u, lg) ==
    fmul(self.v_h2,
         fsub(fadd(fmul(fadd(fdiv(self.e_b2, I(2)), fdiv(self.e_c2, I(2))),
                        fadd(fsub(fmul(fsub(fdiv(I(1), u), fdiv(I(1), pow(u, 3))),
                                       lg),
                                  I(1)),
                             fdiv(fadd(fsub(fmul(I(2), pow(u, 2)), fmul(I(3), u)),
                                       I(6)),
                                  fmul(I(6), pow(u, 2))))),
                   fmul(fadd(fdiv(fmul(self.e_b2, pow(l.y, 2)),
                                  fmul(fmul(I(2), l.r_), l.r_)),
                             fdiv(fmul(fmul(self.e_c2, l.z), l.z),
                                  fmul(fmul(I(2), l.r_), l.r_))),
                        fadd(fdiv(fsub(fsub(fmul(u, u), fmul(I(3), u)), I(6)),
                                  fmul(fmul(fmul(I(2), u), u), fadd(u, I(1)))),
                             fdiv(fdiv(fdiv(fmul(I(3), lg), u), u), u)))),
              fdiv(lg, u)))

LeeSutoNFW_value_u(self, l, u) ==
    LeeSutoNFW_value_expr(self, l, u, log(fadd(u, I(1))))

LeeSutoNFW_value_r(self, l) ==
    LeeSutoNFW_value_u(self, l, fdiv(l.r_, self.r_h))

\* body of the loop of _value; R is the array self.R views
LeeSutoNFW_value_at(self, R, p) ==
    LeeSutoNFW_value_r(self, LeeSutoNFW_rotate(R, p) @@ [r_ |-> sqrt(norm2(LeeSutoNFW_rotate(R, p)))])

\* ax, ay, az
LeeSutoNFW_accel_7(self, l) ==
    <<fmul(fmul(l.x2, l.x), fadd(fmul(l.x17, l.x7), l.x22)),
      fmul(fmul(l.x2, l.y),
           fadd(fmul(l.x17, fsub(l.x7, fmul(l.r2_, self.e_b2))), l.x22)),
      fmul(fmul(l.x2, l.z),
           fadd(fmul(l.x17, fsub(l.x7, fmul(l.r2_, self.e_c2))), l.x22))>>

\* x17 and x22
LeeSutoNFW_accel_6(self, l) ==
    LeeSutoNFW_accel_7(self, l @@
      [x17 |-> fmul(fmul(fmul(I(6), self.r_h), l.x0),
                    fsub(fmul(l.r_, l.x16), fmul(fmul(l.x11, I(6)), self.r_h2))),
       x22 |->
         fsub(fadd(fadd(fmul(fmul(fmul(I(-12), pow(l.r_, 5)), self.r_h), l.x0),
                        fmul(fmul(fmul(I(12), pow(l.r_, 4)), self.r_h), l.x18)),
                   fmul(fmul(fmul(I(3), self.r_h), l.x7),
                        fadd(fadd(fsub(fmul(l.x16, l.r2_),
                                       fmul(fmul(I(18), l.x18), self.r_h2)),
                                  fmul(l.x20, fsub(fmul(I(2), l.r_),
                                                   fmul(I(3), self.r_h)))),
                             fmul(l.x21, fadd(l.x15, fmul(I(9), self.r_h2)))))),
              fmul(fmul(l.x20, fadd(self.e_b2, self.e_c2)),
                   fadd(fadd(fadd(fmul(fmul(fmul(I(-6), l.r_), self.r_h),
                                       fsub(l.r2_, self.r_h2)),
                                  fmul(fmul(fmul(I(6), self.r_h), l.x11),
                                       fsub(l.r2_, fmul(I(3), self.r_h2)))),
                             fmul(l.x20, fadd(fmul(I(-4), l.r_),
                                              fmul(I(3), self.r_h)))),
                        fmul(l.x21, fadd(fadd(fneg(l.x13), fmul(I(2), l.r2_)),
                                         fmul(I(6), self.r_h2))))))])

\* x16, x18, x20, x21
LeeSutoNFW_accel_5(self, l) ==
    LeeSutoNFW_accel_6(self, l @@
      [x16 |-> fadd(l.x15, fmul(I(6), self.r_h2)),
       x18 |-> fmul(l.x1, l.x10),
       x20 |-> fmul(l.x0, l.r2_),
       x21 |-> fmul(fmul(I(2), l.r_), l.x0)])

\* x2, x11, x15
LeeSutoNFW_accel_4(self, l) ==
    LeeSutoNFW_accel_5(self, l @@
      [x2 |-> fdiv(self.v_h2, fmul(fmul(I(12), pow(l.r_, 7)), l.x1)),
       x11 |-> fmul(l.x0, l.x10),
       x15 |-> fsub(l.x13, l.r2_)])

\* x1, x7, x10, x13
LeeSutoNFW_accel_3(self, l) ==
    LeeSutoNFW_accel_4(self, l @@
      [x1 |-> fmul(l.x0, l.x0),
       x7 |-> fadd(fmul(fmul(self.e_b2, l.y), l.y), fmul(fmul(self.e_c2, l.z), l.z)),
       x10 |-> log(fdiv(l.x0, self.r_h)),
       x13 |-> fmul(fmul(l.r_, I(3)), self.r_h)])

\* _r and x0
LeeSutoNFW_accel_2(self, l) ==
    LeeSutoNFW_accel_3(self, l @@
      [r_ |-> sqrt(l.r2_), x0 |-> fadd(sqrt(l.r2_), self.r_h)])

\* _r2
LeeSutoNFW_accel_1(self, l) ==
    LeeSutoNFW_accel_2(self, l @@ [r2_ |-> norm2(l)])

\* the native-frame acceleration (ax, ay, az) of the loop of _gradient
LeeSutoNFW_accel(self, R, p) ==
    LeeSutoNFW_accel_1(self, LeeSutoNFW_rotate(R, p))

\* the acceleration rotated with R where Rinv is due
LeeSutoNFW_gradient_withR(self, R, Rinv, p) ==
    MatVec(R, LeeSutoNFW_accel(self, R, p))

\* body of the loop of _gradient: the acceleration rotated with Rinv
LeeSutoNFW_gradient_at(self, R, Rinv, p) ==
    MatVec(Rinv, LeeSutoNFW_accel(self, R, p))

(***************************************************************************)
(* Python-level values: a double, or None (a missing parameter)           *)
(***************************************************************************)
None == <<0, -1>>

IsNone(x) == x[2] < 0

\* conversion of a Python argument to a C double fails on None (TypeError)
AnyNone(S) == \E x \in S : IsNone(x)

(***************************************************************************)
(* Bounds and input sets                                                   *)
(***************************************************************************)
\* longest position batch and output buffer
MaxN == 2

\* number of writes to the parameter mapping or the kernel's attributes
MaxMut == 1

Positions == {Vec(0, 0, 0), Vec(1, 0, 0), Vec(1, 2, 2)}

RECURSIVE SeqsUpTo(_, _)
SeqsUpTo(S, n) ==
    IF n = 0 THEN {<<>>}
    ELSE LET T == SeqsUpTo(S, n - 1)
         IN  T \cup {Append(t, x) : t \in {u \in T : Len(u) = n - 1}, x \in S}

Batches == SeqsUpTo(Positions, MaxN)

\* what a caller-allocated output buffer holds before the call
Fill == I(7)

\* arguments of HernquistPotential(m, c, usys); G is what usys resolves to
HernquistArgs ==
    LET good == [G |-> I(1), m |-> I(1), c |-> I(1)]
    IN  {good, [good EXCEPT !.c = I(-1)], [good EXCEPT !.m = NaN],
         [good EXCEPT !.c = None]}

\* arguments of MiyamotoNagaiPotential(m, a, b, usys)
MiyamotoNagaiArgs ==
    LET good == [G |-> I(1), m |-> I(1), a |-> I(1), b |-> I(0)]
    IN  {good, [good EXCEPT !.a = I(-1), !.b = I(1)], [good EXCEPT !.m = None]}

\* Euler angles (phi, theta, psi), in quarter turns
AngleChoices == {<<0, 0, 0>>, <<1, 0, 0>>, <<1, 1, 0>>}

\* arguments of LeeSutoNFWPotential(v_h, r_h, a, b, c, phi, theta, psi)
LeeSutoNFWArgs ==
    LET good == [v_h |-> I(1), r_h |-> I(2), a |-> I(4), b |-> I(2), c |-> I(1),
                 phi |-> 0, theta |-> 0, psi |-> 0]
    IN  {[good EXCEPT !.phi = t[1], !.theta = t[2], !.psi = t[3]] : t \in AngleChoices}
        \cup {[good EXCEPT !.a = I(0)], [good EXCEPT !.a = I(-1)],
              [good EXCEPT !.b = I(0)], [good EXCEPT !.c = I(-1)],
              [good EXCEPT !.r_h = PInf], [good EXCEPT !.v_h = None]}

(***************************************************************************)
(* State                                                                   *)
(***************************************************************************)
VARIABLES
    phase,       \* "new", "live" (a model exists), "failed" (the constructor
                 \* raised) or "crashed" (the process was killed)
    args,        \* the arguments the model was constructed with
    kernel,      \* the kernel object (c_instance) and its attributes
    parameters,  \* the parameter mapping of the model
    mem,         \* the 3x3 numpy arrays allocated so far, by index
    r,           \* the position batch of the caller
    pot,         \* the caller's output buffer of value
    grad,        \* the caller's output buffer of gradient
    hess,        \* the caller's output buffer of hessian
    potW,        \* writes to each slot of pot during the last call
    gradW,       \* writes to each component of grad during the last call
    oob,         \* accesses outside r, pot and grad during the last call
    err,         \* the exception the last operation raised ("" if none)
    op,          \* the last operation
    nmut         \* writes to the mapping or the attributes so far

vars == <<phase, args, kernel, parameters, mem, r, pot, grad, hess,
          potW, gradW, oob, err, op, nmut>>

buffers == <<r, pot, grad, hess, potW, gradW, oob>>

NoKernel == [kind |-> "none"]

Init ==
    /\ phase = "new"
    /\ args = [kind |-> "none"]
    /\ kernel = NoKernel
    /\ parameters = [kind |-> "none"]
    /\ mem = <<>>
    /\ r = <<>>
    /\ pot = <<>>
    /\ grad = <<>>
    /\ hess = <<>>
    /\ potW = <<>>
    /\ gradW = <<>>
    /\ oob = 0
    /\ err = ""
    /\ op = [name |-> "none"]
    /\ nmut = 0

(***************************************************************************)
(* Construction                                                            *)
(***************************************************************************)
\* CPotential.__init__(self, c_class, parameters) after c_class(**parameters)
\* returned k: the model keeps the kernel and the mapping it was handed
CPotential_init(k, p, arrays) ==
    /\ phase' = "live"
    /\ kernel' = k
    /\ parameters' = p
    /\ mem' = arrays
    /\ err' = ""

\* an exception leaves the constructor: no model and no kernel exist
Raise(e) ==
    /\ phase' = "failed"
    /\ kernel' = NoKernel
    /\ parameters' = [kind |-> "none"]
    /\ mem' = <<>>
    /\ err' = e

HernquistPotential_init(a) ==
    /\ phase = "new"
    /\ args' = [kind |-> "Hernquist", a |-> a]
    /\ op' = [name |-> "construct"]
    /\ LET p == [G |-> a.G, m |-> a.m, c |-> a.c]
       IN  IF AnyNone({p.G, p.m, p.c})
           THEN Raise("TypeError")
           ELSE CPotential_init(Hernquist_init(p.G, p.m, p.c), p, <<>>)
    /\ UNCHANGED <<buffers, nmut>>

MiyamotoNagaiPotential_init(a) ==
    /\ phase = "new"
    /\ args' = [kind |-> "MiyamotoNagai", a |-> a]
    /\ op' = [name |-> "construct"]
    /\ LET p == [G |-> a.G, m |-> a.m, a |-> a.a, b |-> a.b]
       IN  IF AnyNone({p.G, p.m, p.a, p.b})
           THEN Raise("TypeError")
           ELSE CPotential_init(MiyamotoNagai_init(p.G, p.m, p.a, p.b), p, <<>>)
    /\ UNCHANGED <<buffers, nmut>>

\* the array R that LeeSutoNFWPotential.__init__ builds from the angles
EulerR(phi, theta, psi) ==
    IF theta # 0 \/ phi # 0 \/ psi # 0
    THEN LET D == rotation_matrix(phi, "z")
             C == rotation_matrix(theta, "x")
             B == rotation_matrix(psi, "z")
         IN  MatMul(MatMul(B, C), D)
    ELSE eye3

\* parameters['R'] is the array of index 1; the kernel's R views the array it
\* is passed and its Rinv views the array np.linalg.inv allocates
LeeSutoNFWPotential_init(a) ==
    /\ phase = "new"
    /\ args' = [kind |-> "LeeSutoNFW", a |-> a]
    /\ op' = [name |-> "construct"]
    /\ LET R == EulerR(a.phi, a.theta, a.psi)
           p == [v_h |-> a.v_h, r_h |-> a.r_h, a |-> a.a, b |-> a.b, c |-> a.c,
                 R |-> 1]
       IN  IF AnyNone({p.v_h, p.r_h, p.a, p.b, p.c})
           THEN Raise("TypeError")
           ELSE IF LeeSutoNFW_init_raises(p.r_h, p.a)
           THEN Raise("ZeroDivisionError")
           ELSE IF Singular(R)
           THEN Raise("LinAlgError")
           ELSE CPotential_init(
                    LeeSutoNFW_init(p.v_h, p.r_h, p.a, p.b, p.c, p.R, 2),
                    p, <<R, inv(R)>>)
    /\ UNCHANGED <<buffers, nmut>>

(***************************************************************************)
(* Evaluation: the loops of _value and _gradient.  Bounds are not checked  *)
(* (boundscheck(False)): an index past the end of r reads whatever lies    *)
(* there (garbage g), an index past the end of the output buffer writes    *)
(* outside it; both are counted in oob.                                    *)
(***************************************************************************)
\* a loop that runs one iteration too many
LoopDone_offbyone(i, nparticles) == i > nparticles

\* for i in range(nparticles): the loop is over when i reaches nparticles
LoopDone(i, nparticles) == i >= nparticles

\* a read that never advances past the first position
ReadPos_first(st, i, g) == IF Len(st.r) >= 1 THEN st.r[1] ELSE g

\* r[i, 0..2]
ReadPos(st, i, g) == IF i + 1 <= Len(st.r) THEN st.r[i + 1] ELSE g

ReadCount(st, i) ==
    IF i + 1 <= Len(st.r) THEN st ELSE [st EXCEPT !.oob = @ + 1]

\* pot[i] = v
StorePot(st, i, v) ==
    IF i + 1 <= Len(st.buf)
    THEN [st EXCEPT !.buf[i + 1] = v, !.w[i + 1] = @ + 1]
    ELSE [st EXCEPT !.oob = @ + 1]

\* a store that also writes the result over the position it was computed from
StoreGrad_clobber(st, i, v) ==
    IF i + 1 <= Len(st.buf)
    THEN [st EXCEPT !.buf[i + 1] = v,
                    !.w[i + 1] = <<@[1] + 1, @[2] + 1, @[3] + 1>>,
                    !.r = [j \in 1..Len(@) |-> IF j = i + 1 THEN v ELSE @[j]]]
    ELSE [st EXCEPT !.oob = @ + 3]

\* grad[i,0] = v[1]; grad[i,1] = v[2]; grad[i,2] = v[3]
StoreGrad(st, i, v) ==
    IF i + 1 <= Len(st.buf)
    THEN [st EXCEPT !.buf[i + 1] = v,
                    !.w[i + 1] = <<@[1] + 1, @[2] + 1, @[3] + 1>>]
    ELSE [st EXCEPT !.oob = @ + 3]

\* the value the kernel self computes for one position
value_at(self, M, p) ==
    IF self.kind = "Hernquist" THEN Hernquist_value_at(self, p)
    ELSE IF self.kind = "MiyamotoNagai" THEN MiyamotoNagai_value_at(self, p)
    ELSE LeeSutoNFW_value_at(self, M[self.R], p)

gradient_at(self, M, p) ==
    IF self.kind = "Hernquist" THEN Hernquist_gradient_at(self, p)
    ELSE IF self.kind = "MiyamotoNagai" THEN MiyamotoNagai_gradient_at(self, p)
    ELSE LeeSutoNFW_gradient_at(self, M[self.R], M[self.Rinv], p)

\* _value(self, r, pot, nparticles), from iteration i on
RECURSIVE value_loop(_, _, _, _, _, _)
value_loop(self, M, st, i, nparticles, g) ==
    IF LoopDone(i, nparticles) THEN st
    ELSE value_loop(self, M,
                    StorePot(ReadCount(st, i), i,
                             value_at(self, M, ReadPos(st, i, g))),
                    i + 1, nparticles, g)

\* _gradient(self, r, grad, nparticles), from iteration i on
RECURSIVE gradient_loop(_, _, _, _, _, _)
gradient_loop(self, M, st, i, nparticles, g) ==
    IF LoopDone(i, nparticles) THEN st
    ELSE gradient_loop(self, M,
                       StoreGrad(ReadCount(st, i), i,
                                 gradient_at(self, M, ReadPos(st, i, g))),
                       i + 1, nparticles, g)

Min(a, b) == IF a < b THEN a ELSE b

InRange(n, rr, buf) == n <= Len(rr) /\ n <= Len(buf)

\* the memory a call works on, before it writes anything
Frame(rr, buf, zero) ==
    [r |-> rr, buf |-> buf, w |-> [i \in 1..Len(buf) |-> zero], oob |-> 0]

\* the caller supplies a position batch and output buffers of L slots
Allocate(rr, L) ==
    /\ phase = "live"
    /\ r' = rr
    /\ pot' = [i \in 1..L |-> Fill]
    /\ grad' = [i \in 1..L |-> <<Fill, Fill, Fill>>]
    /\ hess' = [i \in 1..L |-> Fill]
    /\ potW' = [i \in 1..L |-> 0]
    /\ gradW' = [i \in 1..L |-> <<0, 0, 0>>]
    /\ oob' = 0
    /\ err' = ""
    /\ op' = [name |-> "alloc"]
    /\ UNCHANGED <<phase, args, kernel, parameters, mem, nmut>>

\* what a call leaves behind.  In range the loop runs to its end.  Out of
\* range the behaviour is undefined: either the first access outside a buffer
\* faults and the process is killed, or the loop runs on, reading garbage g
\* and writing outside the buffer.
Outcome(n, st0, fault) == IF fault THEN Min(n, Min(Len(st0.r), Len(st0.buf))) ELSE n

\* kernel._value(r, pot, nparticles)
Value(n) ==
    /\ phase = "live"
    /\ op.name = "alloc"
    /\ \E g \in Positions, fault \in BOOLEAN :
          /\ InRange(n, r, pot) => (~fault /\ g = Vec(0, 0, 0))
          /\ LET st0 == Frame(r, pot, 0)
                 st == value_loop(kernel, mem, st0, 0, Outcome(n, st0, fault), g)
             IN  /\ r' = st.r
                 /\ pot' = st.buf
                 /\ potW' = st.w
                 /\ oob' = IF fault THEN 1 ELSE st.oob
          /\ phase' = IF fault THEN "crashed" ELSE "live"
          /\ err' = IF fault THEN "SIGSEGV" ELSE ""
    /\ gradW' = [i \in 1..Len(grad) |-> <<0, 0, 0>>]
    /\ op' = [name |-> "value", n |-> n]
    /\ UNCHANGED <<args, kernel, parameters, mem, grad, hess, nmut>>

\* kernel._gradient(r, grad, nparticles)
Gradient(n) ==
    /\ phase = "live"
    /\ op.name = "alloc"
    /\ \E g \in Positions, fault \in BOOLEAN :
          /\ InRange(n, r, grad) => (~fault /\ g = Vec(0, 0, 0))
          /\ LET st0 == Frame(r, grad, <<0, 0, 0>>)
                 st == gradient_loop(kernel, mem, st0, 0, Outcome(n, st0, fault), g)
             IN  /\ r' = st.r
                 /\ grad' = st.buf
                 /\ gradW' = st.w
                 /\ oob' = IF fault THEN 1 ELSE st.oob
          /\ phase' = IF fault THEN "crashed" ELSE "live"
          /\ err' = IF fault THEN "SIGSEGV" ELSE ""
    /\ potW' = [i \in 1..Len(pot) |-> 0]
    /\ op' = [name |-> "gradient", n |-> n]
    /\ UNCHANGED <<args, kernel, parameters, mem, pot, hess, nmut>>

\* a kernel class table in which the Miyamoto-Nagai _hessian is live
HasHessian_live(kind) == kind = "MiyamotoNagai"

\* whether the kernel class defines _hessian: in all three classes the
\* method is commented out or absent
HasHessian(kind) == FALSE

\* model.hessian(positions): fails on a kernel without _hessian; a kernel
\* with one would fill the buffer
Hessian ==
    /\ phase = "live"
    /\ op.name = "alloc"
    /\ IF HasHessian(kernel.kind)
       THEN /\ hess' = [i \in 1..Len(hess) |-> I(0)]
            /\ err' = ""
       ELSE /\ hess' = hess
            /\ err' = "NotImplemented"
    /\ potW' = [i \in 1..Len(pot) |-> 0]
    /\ gradW' = [i \in 1..Len(grad) |-> <<0, 0, 0>>]
    /\ oob' = 0
    /\ op' = [name |-> "hessian"]
    /\ UNCHANGED <<phase, args, kernel, parameters, mem, r, pot, grad, nmut>>

(***************************************************************************)
(* Writes to the parameter mapping and to the kernel's public attributes   *)
(***************************************************************************)
\* the value written by the mutations modelled
NewValue == I(3)

\* a new 3x3 array
NewArray == <<Vec(2, 0, 0), Vec(0, 2, 0), Vec(0, 0, 2)>>

\* model.parameters[name] = NewValue (a new array for 'R')
ParamSetItem(name) ==
    /\ phase = "live"
    /\ nmut < MaxMut
    /\ name \in DOMAIN parameters
    /\ IF name = "R"
       THEN /\ mem' = Append(mem, NewArray)
            /\ parameters' = [parameters EXCEPT !.R = Len(mem) + 1]
       ELSE /\ mem' = mem
            /\ parameters' = [parameters EXCEPT ![name] = NewValue]
    /\ nmut' = nmut + 1
    /\ err' = ""
    /\ op' = [name |-> "param_setitem", key |-> name]
    /\ UNCHANGED <<phase, args, kernel, buffers>>

\* model.parameters['R'][i, j] = NewValue, i and j counted from 0
ParamRWrite(i, j) ==
    /\ phase = "live"
    /\ nmut < MaxMut
    /\ "R" \in DOMAIN parameters
    /\ mem' = [mem EXCEPT ![parameters.R][i + 1][j + 1] = NewValue]
    /\ nmut' = nmut + 1
    /\ err' = ""
    /\ op' = [name |-> "param_R_write", key |-> <<i, j>>]
    /\ UNCHANGED <<phase, args, kernel, parameters, buffers>>

\* kernel.<name> = NewValue (a new array for R): the attributes are declared
\* cdef public
KernelSetAttr(name) ==
    /\ phase = "live"
    /\ nmut < MaxMut
    /\ name \in DOMAIN kernel \ {"kind"}
    /\ IF name = "R"
       THEN /\ mem' = Append(mem, NewArray)
            /\ kernel' = [kernel EXCEPT !.R = Len(mem) + 1]
       ELSE /\ mem' = mem
            /\ kernel' = [kernel EXCEPT ![name] = NewValue]
    /\ nmut' = nmut + 1
    /\ err' = ""
    /\ op' = [name |-> "kernel_setattr", key |-> name]
    /\ UNCHANGED <<phase, args, parameters, buffers>>

\* the entries written by the mutations modelled
MutKeys == {"m", "a", "R"}
MutAttrs == {"GM", "r_h", "R"}

\* construction and evaluation
Next ==
    \/ \E a \in HernquistArgs : HernquistPotential_init(a)
    \/ \E a \in MiyamotoNagaiArgs : MiyamotoNagaiPotential_init(a)
    \/ \E a \in LeeSutoNFWArgs : LeeSutoNFWPotential_init(a)
    \/ \E rr \in Batches, L \in 0..MaxN : Allocate(rr, L)
    \/ \E n \in 0..(MaxN + 1) : Value(n)
    \/ \E n \in 0..(MaxN + 1) : Gradient(n)
    \/ Hessian

Spec == Init /\ [][Next]_vars

\* construction, writes to the mapping and the attributes, and evaluation of
\* batches of at most one position
NextMut ==
    \/ \E a \in HernquistArgs : HernquistPotential_init(a)
    \/ \E a \in MiyamotoNagaiArgs : MiyamotoNagaiPotential_init(a)
    \/ \E a \in LeeSutoNFWArgs : LeeSutoNFWPotential_init(a)
    \/ \E name \in MutKeys : ParamSetItem(name)
    \/ ParamRWrite(0, 0)
    \/ \E name \in MutAttrs : KernelSetAttr(name)
    \/ \E rr \in SeqsUpTo(Positions, 1) : Allocate(rr, Len(rr))
    \/ \E n \in 0..1 : Value(n)
    \/ \E n \in 0..1 : Gradient(n)

SpecMut == Init /\ [][NextMut]_vars

(***************************************************************************)
(* Properties                                                              *)
(***************************************************************************)
\* the last operation was a call of _value (_gradient) that returned
ValueReturned == op.name = "value" /\ err = ""
GradientReturned == op.name = "gradient" /\ err = ""

\* the particle count of the last call lies within the batch and the buffer
CountFits(buf) == op.n <= Len(r) /\ op.n <= Len(buf)

\* C1: a call that returns, with N particles within the batch and the output
\* buffer, has written each slot 0..N-1 exactly once (each of the three
\* components for gradient), has written no other slot and nothing outside
\* the buffer; the slots from N on, and with N = 0 the whole buffer, hold
\* what they held before the call.
C1_EachSlotWrittenOnce ==
    /\ (ValueReturned /\ CountFits(pot)) =>
          /\ oob = 0
          /\ \A i \in 1..Len(pot) :
                IF i <= op.n THEN potW[i] = 1
                ELSE potW[i] = 0 /\ pot[i] = Fill
    /\ (GradientReturned /\ CountFits(grad)) =>
          /\ oob = 0
          /\ \A i \in 1..Len(grad) :
                IF i <= op.n THEN gradW[i] = <<1, 1, 1>>
                ELSE gradW[i] = <<0, 0, 0>> /\ grad[i] = <<Fill, Fill, Fill>>

C1_Witness ==
    /\ GradientReturned
    /\ op.n = 1
    /\ Len(r) = 2
    /\ Len(grad) = 2
    /\ gradW = <<<<1, 1, 1>>, <<0, 0, 0>>>>
    /\ grad[2] = <<Fill, Fill, Fill>>

\* what one call of _value and one of _gradient on the single position p
\* return for kernel k over the arrays M
Results(k, M) ==
    [p \in Positions |->
        <<value_loop(k, M, Frame(<<p>>, <<Fill>>, 0), 0, 1, p).buf[1],
          gradient_loop(k, M, Frame(<<p>>, <<<<Fill, Fill, Fill>>>>, <<0, 0, 0>>),
                        0, 1, p).buf[1]>>]

\* the step is a write to the parameter mapping or into its 'R' array
MappingWritten ==
    /\ nmut' = nmut + 1
    /\ op'.name \in {"param_setitem", "param_R_write"}

\* C2: a write to the model's parameter mapping after construction -
\* replacing an entry, or modifying the array under 'R' in place - leaves
\* the value and the gradient the kernel returns for every position what
\* they were before the write.
C2_MappingWriteHasNoEffect ==
    [][MappingWritten => Results(kernel', mem') = Results(kernel, mem)]_vars

\* a parameter set the claim calls invalid: an entry missing or not finite,
\* or a Lee-Suto axis ratio that is not positive
Positive(x) == IsFinite(x) /\ x[1] > 0

InvalidArgs ==
    \/ /\ args.kind = "Hernquist"
       /\ \E x \in {args.a.G, args.a.m, args.a.c} : IsNone(x) \/ ~IsFinite(x)
    \/ /\ args.kind = "MiyamotoNagai"
       /\ \E x \in {args.a.G, args.a.m, args.a.a, args.a.b} :
             IsNone(x) \/ ~IsFinite(x)
    \/ /\ args.kind = "LeeSutoNFW"
       /\ \/ \E x \in {args.a.v_h, args.a.r_h, args.a.a, args.a.b, args.a.c} :
                IsNone(x) \/ ~IsFinite(x)
          \/ \E x \in {args.a.a, args.a.b, args.a.c} : ~Positive(x)

\* C3: construction with an invalid parameter set fails with InvalidParameter
\* and produces no kernel.
C3_InvalidParameterRejected ==
    (op.name = "construct" /\ InvalidArgs) =>
        (err = "InvalidParameter" /\ phase = "failed" /\ kernel = NoKernel)

\* C4: a call whose particle count differs from the batch's length or from
\* the output buffer's length fails with InvalidArgument, having written
\* nothing.
C4_MismatchRejected ==
    /\ (op.name = "value" /\ (op.n # Len(r) \/ op.n # Len(pot))) =>
          (err = "InvalidArgument" /\ \A i \in 1..Len(pot) : potW[i] = 0)
    /\ (op.name = "gradient" /\ (op.n # Len(r) \/ op.n # Len(grad))) =>
          (err = "InvalidArgument"
           /\ \A i \in 1..Len(grad) : gradW[i] = <<0, 0, 0>>)

BatchesEndingWith(n, p) == {b \in Batches : Len(b) = n /\ b[n] = p}

\* C6: output[i] is determined by position i and the model's parameters
\* alone: a second call on the same model with any batch that agrees with
\* the first at index i - other positions before it, another length, another
\* fill of the buffer - writes the same output[i].
C6_OutputDependsOnOwnPosition ==
    /\ (ValueReturned /\ CountFits(pot)) =>
          \A i \in 1..op.n : \A b \in BatchesEndingWith(i, r[i]) :
             value_loop(kernel, mem, Frame(b, [j \in 1..i |-> NaN], 0),
                        0, i, b[1]).buf[i] = pot[i]
    /\ (GradientReturned /\ CountFits(grad)) =>
          \A i \in 1..op.n : \A b \in BatchesEndingWith(i, r[i]) :
             gradient_loop(kernel, mem,
                           Frame(b, [j \in 1..i |-> <<NaN, NaN, NaN>>], <<0, 0, 0>>),
                           0, i, b[1]).buf[i] = grad[i]

C6_Witness ==
    /\ ValueReturned
    /\ kernel.kind = "LeeSutoNFW"
    /\ op.n = 2
    /\ Len(r) = 2
    /\ Len(pot) = 2
    /\ r[1] # r[2]
    /\ pot[1] # pot[2]

\* the step is a call of _value (_gradient) within the batch and the buffer
\* that returns
ValueStep ==
    op.name = "alloc" /\ op'.name = "value" /\ err' = "" /\ op'.n <= Len(r)
    /\ op'.n <= Len(pot)
GradientStep ==
    op.name = "alloc" /\ op'.name = "gradient" /\ err' = "" /\ op'.n <= Len(r)
    /\ op'.n <= Len(grad)

\* C7: a value or gradient call leaves the position batch, every field of
\* the kernel (the arrays behind R and Rinv included), the parameter mapping
\* and the buffers other than its own output unchanged, so the same position
\* gets the same result at every call.
C7_CallChangesOnlyItsOutput ==
    [][/\ ValueStep => (/\ r' = r /\ kernel' = kernel /\ mem' = mem
                        /\ parameters' = parameters
                        /\ grad' = grad /\ hess' = hess)
       /\ GradientStep => (/\ r' = r /\ kernel' = kernel /\ mem' = mem
                           /\ parameters' = parameters
                           /\ pot' = pot /\ hess' = hess)]_vars

C7_Witness ==
    /\ GradientReturned
    /\ kernel.kind = "MiyamotoNagai"
    /\ op.n = 2
    /\ Len(r) = 2
    /\ gradW = <<<<1, 1, 1>>, <<1, 1, 1>>>>

\* |p| for a position whose norm is rational
Norm(p) == sqrt(fadd(fadd(fmul(p[1], p[1]), fmul(p[2], p[2])), fmul(p[3], p[3])))

\* -G*m/(R + c)
HernquistValue(G, m, c, p) == fdiv(fneg(fmul(G, m)), fadd(Norm(p), c))

\* G*m*r_k / ((R + c)^2 * R), k = 1..3
HernquistGradient(G, m, c, p) ==
    [k \in 1..3 |->
        fdiv(fmul(fmul(G, m), p[k]),
             fmul(fmul(fadd(Norm(p), c), fadd(Norm(p), c)), Norm(p)))]

\* the position has R # 0 and R + c # 0
HernquistRegular(c, p) == Norm(p) # I(0) /\ fadd(Norm(p), c) # I(0)

\* C8: Hernquist kernel built from G, m, c: for every particle with
\* R = |r| # 0 and R + c # 0 the value written is -G*m/(R + c) and the
\* gradient component k is G*m*r_k/((R + c)^2 * R); with G = m = c = 1 at
\* (1,0,0) these are -1/2 and (1/4, 0, 0).
C8_HernquistFormulas ==
    /\ (kernel.kind = "Hernquist" /\ ValueReturned /\ CountFits(pot)) =>
          \A i \in 1..op.n : HernquistRegular(args.a.c, r[i]) =>
             /\ pot[i] = HernquistValue(args.a.G, args.a.m, args.a.c, r[i])
             /\ (args.a = [G |-> I(1), m |-> I(1), c |-> I(1)]
                 /\ r[i] = Vec(1, 0, 0)) => pot[i] = Q(-1, 2)
    /\ (kernel.kind = "Hernquist" /\ GradientReturned /\ CountFits(grad)) =>
          \A i \in 1..op.n : HernquistRegular(args.a.c, r[i]) =>
             /\ grad[i] = HernquistGradient(args.a.G, args.a.m, args.a.c, r[i])
             /\ (args.a = [G |-> I(1), m |-> I(1), c |-> I(1)]
                 /\ r[i] = Vec(1, 0, 0)) => grad[i] = <<Q(1, 4), I(0), I(0)>>

C8_Witness ==
    /\ kernel.kind = "Hernquist"
    /\ args.a = [G |-> I(1), m |-> I(1), c |-> I(1)]
    /\ GradientReturned
    /\ op.n = 2
    /\ r = <<Vec(1, 0, 0), Vec(1, 2, 2)>>
    /\ grad = <<<<Q(1, 4), I(0), I(0)>>, <<Q(1, 48), Q(1, 24), Q(1, 24)>>>>

\* the frame the constructor builds from the angles it was given
FrameOfArgs == EulerR(args.a.phi, args.a.theta, args.a.psi)

\* the kernel of the model with the same v_h, r_h, a, b, c and zero angles,
\* and the arrays behind its R and Rinv
Unrotated ==
    LeeSutoNFW_init(args.a.v_h, args.a.r_h, args.a.a, args.a.b, args.a.c, 1, 2)
UnrotatedMem == <<EulerR(0, 0, 0), inv(EulerR(0, 0, 0))>>

\* C9: Lee-Suto rotation round trip.  For the model built with angles giving
\* frame R and the zero-angle model with the same v_h, r_h, a, b, c: the
\* rotated model's value at R^-1*p is the unrotated model's value at p, for
\* every non-origin p, and its gradient at R^-1*p is Rinv applied to the
\* unrotated model's gradient at p.  (The position evaluated, r[i], is
\* R^-1*p for p = R*r[i].)
C9_RotationRoundTrip ==
    /\ (kernel.kind = "LeeSutoNFW" /\ ValueReturned /\ CountFits(pot)) =>
          \A i \in 1..op.n :
             LET p == MatVec(FrameOfArgs, r[i])
             IN  p # Vec(0, 0, 0) =>
                    /\ MatVec(inv(FrameOfArgs), p) = r[i]
                    /\ pot[i] = value_at(Unrotated, UnrotatedMem, p)
    /\ (kernel.kind = "LeeSutoNFW" /\ GradientReturned /\ CountFits(grad)) =>
          \A i \in 1..op.n :
             LET p == MatVec(FrameOfArgs, r[i])
             IN  p # Vec(0, 0, 0) =>
                    /\ MatVec(inv(FrameOfArgs), p) = r[i]
                    /\ grad[i] = MatVec(inv(FrameOfArgs),
                                        gradient_at(Unrotated, UnrotatedMem, p))

C9_Witness ==
    /\ kernel.kind = "LeeSutoNFW"
    /\ args.a.phi = 1
    /\ args.a.theta = 1
    /\ GradientReturned
    /\ op.n = 1
    /\ Len(grad) = 1
    /\ r = <<Vec(1, 2, 2)>>
    /\ MatVec(FrameOfArgs, r[1]) # r[1]
    /\ grad[1] = <<Q(277, 25200), Q(101, 6300), Q(131, 6300)>>

\* Rz(psi)*Rx(theta)*Rz(phi)
ZXZ(phi, theta, psi) ==
    MatMul(MatMul(rotation_matrix(psi, "z"), rotation_matrix(theta, "x")),
           rotation_matrix(phi, "z"))

\* C10: for a Lee-Suto model R*Rinv = I in every state after construction,
\* whatever calls, writes to the parameter mapping or into its 'R' array and
\* assignments to the kernel's public attributes have happened; as
\* constructed, R is Rz(psi)*Rx(theta)*Rz(phi) when an angle is nonzero and
\* R = Rinv = identity when all three are zero.
C10_FrameInvariant ==
    (phase = "live" /\ kernel.kind = "LeeSutoNFW") =>
        /\ MatMul(mem[kernel.R], mem[kernel.Rinv]) = eye3
        /\ op.name = "construct" =>
              IF args.a.phi # 0 \/ args.a.theta # 0 \/ args.a.psi # 0
              THEN mem[kernel.R] = ZXZ(args.a.phi, args.a.theta, args.a.psi)
              ELSE mem[kernel.R] = eye3 /\ mem[kernel.Rinv] = eye3

\* C11: Miyamoto-Nagai kernel with b > 0: at every position, for every
\* accepted m and a, neither _value nor _gradient divides by zero:
\* sqrt(z^2 + b^2) # 0 and x^2 + y^2 + (a + sqrt(z^2 + b^2))^2 # 0, and the
\* results are finite; with b = 0 and G = m = a = 1 the value at the origin
\* is -1.
C11_NoDivisionByZero ==
    /\ (kernel.kind = "MiyamotoNagai" /\ ValueReturned /\ CountFits(pot)) =>
          \A i \in 1..op.n :
             /\ Positive(args.a.b) =>
                   /\ MiyamotoNagai_sqrtz(kernel, r[i]) # I(0)
                   /\ MiyamotoNagai_denom(kernel, r[i]) # I(0)
                   /\ IsFinite(pot[i])
             /\ (args.a = [G |-> I(1), m |-> I(1), a |-> I(1), b |-> I(0)]
                 /\ r[i] = Vec(0, 0, 0)) => pot[i] = I(-1)
    /\ (kernel.kind = "MiyamotoNagai" /\ GradientReturned /\ CountFits(grad)) =>
          \A i \in 1..op.n :
             Positive(args.a.b) =>
                /\ MiyamotoNagai_sqrtz(kernel, r[i]) # I(0)
                /\ MiyamotoNagai_denom(kernel, r[i]) # I(0)
                /\ \A k \in 1..3 : IsFinite(grad[i][k])

====
